---- MODULE Spec2Model ----
(***************************************************************************)
(* A model of src/lib.rs (module parse): JsonTokenizer, JsonParser and the *)
(* load_from_file pipeline that runs one after the other.                  *)
(*                                                                         *)
(* A character is a string naming it; a text is a sequence of characters.  *)
(* The tokenizer and the parser are modelled statement by statement: one   *)
(* step per cursor operation (a call of next(), or a `position -= 1`),     *)
(* together with the code that runs up to the following cursor operation.  *)
(***************************************************************************)
EXTENDS Integers, Sequences, FiniteSets, TLC

VARIABLES tokenizer, parser

vars == <<tokenizer, parser>>

(***************************************************************************)
(* Bounds of the model.                                                    *)
(***************************************************************************)
\* Longest enumerated input text, in characters.
MaxLen == 4
\* Longest enumerated token sequence handed to the parser directly.
MaxTokens == 5

(***************************************************************************)
(* Characters.                                                             *)
(***************************************************************************)
\* U+00E9, which takes two bytes in UTF-8; every other character of the
\* model is ASCII.
EAcute == "U+00E9"
\* The '\0' the tokenizer reports when the input has run out.
NUL == "NUL"
\* Option<char>::None.
NoChar == "None"
Quote == "\""

Digits == {"0", "1", "2", "3", "4", "5", "6", "7", "8", "9"}

is_ascii_digit(ch) == ch \in Digits

DigitVal(ch) ==
  CASE ch = "0" -> 0 [] ch = "1" -> 1 [] ch = "2" -> 2 [] ch = "3" -> 3
    [] ch = "4" -> 4 [] ch = "5" -> 5 [] ch = "6" -> 6 [] ch = "7" -> 7
    [] ch = "8" -> 8 [] ch = "9" -> 9

\* The number of bytes of a character in UTF-8 (the input is a &str).
len_utf8(ch) == IF ch = EAcute THEN 2 ELSE 1

\* The byte offset at which the character with 0-based index k starts.
RECURSIVE ByteOffset(_, _)
ByteOffset(input, k) ==
  IF k = 0 THEN 0 ELSE ByteOffset(input, k - 1) + len_utf8(input[k])

\* &input[s..e]: a slice by BYTE offsets. It panics unless both offsets lie on
\* character boundaries within the text.
ByteSlice(input, s, e) ==
  LET n      == Len(input)
      starts == {k \in 0..n : ByteOffset(input, k) = s}
      ends   == {k \in 0..n : ByteOffset(input, k) = e}
  IN  IF s > e \/ starts = {} \/ ends = {}
        THEN [panic |-> TRUE, str |-> <<>>]
        ELSE [panic |-> FALSE,
              str   |-> SubSeq(input, (CHOOSE k \in starts : TRUE) + 1,
                                      CHOOSE k \in ends : TRUE)]

(***************************************************************************)
(* f64 and str::parse::<f64>.                                              *)
(*                                                                         *)
(* A finite f64 is kept as the decimal m * 10^k with m not divisible by    *)
(* 10 (zero is m = 0, k = 0), so that equal values are equal records:      *)
(* 1, 1.0 and 01 are the same number. Texts of the model are short, so     *)
(* every decimal has far fewer than 15 significant digits and distinct     *)
(* decimals are distinct f64 values. -0.0 == 0.0 in f64, and is kept as 0. *)
(***************************************************************************)
RECURSIVE Normalize(_, _)
Normalize(m, k) ==
  IF m = 0 THEN <<0, 0>>
  ELSE IF m % 10 = 0 THEN Normalize(m \div 10, k + 1)
  ELSE <<m, k>>

RECURSIVE NumDigits(_)
NumDigits(m) == IF m < 10 THEN 1 ELSE 1 + NumDigits(m \div 10)

RECURSIVE Pow10(_)
Pow10(k) == IF k = 0 THEN 1 ELSE 10 * Pow10(k - 1)

F64NaN == [cls |-> "nan", neg |-> FALSE, m |-> 0, k |-> 0]
F64Inf(neg) == [cls |-> "inf", neg |-> neg, m |-> 0, k |-> 0]

\* The f64 nearest to (-1)^neg * m * 10^k. The largest finite f64 is
\* 1.7976931348623157e308 and the smallest positive one 4.9e-324; a mantissa
\* of the model has at most six significant digits.
F64(neg, m, k) ==
  LET nk == Normalize(m, k)
      nd == NumDigits(nk[1])
      e  == nk[2] + nd - 1
      lead == IF nd <= 6 THEN nk[1] * Pow10(6 - nd) ELSE nk[1] \div Pow10(nd - 6)
  IN  IF nk[1] = 0 THEN [cls |-> "finite", neg |-> FALSE, m |-> 0, k |-> 0]
      ELSE IF e > 308 \/ (e = 308 /\ lead >= 179770) THEN F64Inf(neg)
      ELSE IF e < -324 THEN [cls |-> "finite", neg |-> FALSE, m |-> 0, k |-> 0]
      ELSE [cls |-> "finite", neg |-> neg, m |-> nk[1], k |-> nk[2]]

IsDigitSeq(s) == \A i \in 1..Len(s) : is_ascii_digit(s[i])

RECURSIVE DigitsValue(_)
DigitsValue(s) ==
  IF s = <<>> THEN 0
  ELSE 10 * DigitsValue(SubSeq(s, 1, Len(s) - 1)) + DigitVal(s[Len(s)])

\* The exponent digits, cut off where the result is out of f64's range anyway.
RECURSIVE ExpValue(_)
ExpValue(s) ==
  IF s = <<>> THEN 0
  ELSE LET v == 10 * ExpValue(SubSeq(s, 1, Len(s) - 1)) + DigitVal(s[Len(s)])
       IN  IF v > 1000 THEN 1000 ELSE v

IndexOf(s, chars) ==
  LET hits == {i \in 1..Len(s) : s[i] \in chars}
  IN  IF hits = {} THEN 0 ELSE CHOOSE i \in hits : \A j \in hits : i <= j

Failed == [ok |-> FALSE, val |-> F64NaN]

\* Number ::= ( Digit+ | Digit+ '.' Digit* | Digit* '.' Digit+ ) Exp?
\* Exp    ::= 'e' Sign? Digit+
ParseNumber(neg, s) ==
  LET ePos  == IndexOf(s, {"e", "E"})
      mant  == IF ePos = 0 THEN s ELSE SubSeq(s, 1, ePos - 1)
      expo  == IF ePos = 0 THEN <<>> ELSE SubSeq(s, ePos + 1, Len(s))
      eNeg  == expo # <<>> /\ expo[1] = "-"
      eDig  == IF expo # <<>> /\ expo[1] \in {"+", "-"}
                 THEN SubSeq(expo, 2, Len(expo)) ELSE expo
      dot   == IndexOf(mant, {"."})
      int   == IF dot = 0 THEN mant ELSE SubSeq(mant, 1, dot - 1)
      frac  == IF dot = 0 THEN <<>> ELSE SubSeq(mant, dot + 1, Len(mant))
      expOk == ePos = 0 \/ (eDig # <<>> /\ IsDigitSeq(eDig))
      ev    == IF eNeg THEN 0 - ExpValue(eDig) ELSE ExpValue(eDig)
  IN  IF IsDigitSeq(int) /\ IsDigitSeq(frac) /\ Len(int) + Len(frac) > 0 /\ expOk
        THEN [ok |-> TRUE, val |-> F64(neg, DigitsValue(int \o frac), ev - Len(frac))]
        ELSE Failed

\* <f64 as FromStr>::from_str:
\* Float ::= Sign? ( 'inf' | 'infinity' | 'nan' | Number ), case-insensitive,
\* with no white space allowed. The characters of the model are lower case.
ParseF64(s) ==
  LET signed == s # <<>> /\ s[1] \in {"+", "-"}
      neg    == s # <<>> /\ s[1] = "-"
      body   == IF signed THEN SubSeq(s, 2, Len(s)) ELSE s
  IN  IF body = <<"i", "n", "f">>
         \/ body = <<"i", "n", "f", "i", "n", "i", "t", "y">>
        THEN [ok |-> TRUE, val |-> F64Inf(neg)]
      ELSE IF body = <<"n", "a", "n">> THEN [ok |-> TRUE, val |-> F64NaN]
      ELSE ParseNumber(neg, body)

(***************************************************************************)
(* JsonToken.                                                              *)
(***************************************************************************)
Token(type) == [type |-> type, s |-> <<>>, n |-> F64(FALSE, 0, 0)]
StringToken(s) == [type |-> "String", s |-> s, n |-> F64(FALSE, 0, 0)]
NumberToken(n) == [type |-> "Number", s |-> <<>>, n |-> n]

\* The six structural characters of tokenize's match and their tokens.
Structural == {"{", "}", ",", ":", "[", "]"}

StructuralToken(ch) ==
  CASE ch = "{" -> Token("LeftBrace")
    [] ch = "}" -> Token("RightBrace")
    [] ch = "," -> Token("Comma")
    [] ch = ":" -> Token("Colon")
    [] ch = "[" -> Token("LeftBracket")
    [] ch = "]" -> Token("RightBracket")

\* The keywords of tokenize's match, by first letter.
KeywordStart == {"t", "f", "n"}

KeywordText(ch) ==
  CASE ch = "t" -> <<"t", "r", "u", "e">>
    [] ch = "f" -> <<"f", "a", "l", "s", "e">>
    [] ch = "n" -> <<"n", "u", "l", "l">>

KeywordToken(ch) ==
  CASE ch = "t" -> Token("True")
    [] ch = "f" -> Token("False")
    [] ch = "n" -> Token("Null")

(***************************************************************************)
(* JsonTokenizer.                                                          *)
(*                                                                         *)
(* Fields input and position are the struct's; tokens, start_position, ch, *)
(* string, keyword, token and kidx are the locals of the running methods;  *)
(* pc is the place in the code; result is what tokenize() returned.        *)
(* lastOp and emitted only record history: the last cursor operation, and  *)
(* the cursor right after the last token was pushed.                       *)
(***************************************************************************)
NoResult == [kind |-> "None", ch |-> NoChar, pos |-> 0, line |-> 0]

\* Err(TokenizeError::UnexpectedCharacter(ch, pos)), returned at `line`.
UnexpectedCharacter(ch, pos, line) ==
  [kind |-> "Err", ch |-> ch, pos |-> pos, line |-> line]

TokenizeOk == [kind |-> "Ok", ch |-> NoChar, pos |-> 0, line |-> 0]

\* A panic (a slice off a character boundary, an arithmetic overflow).
Panicked(line) == [kind |-> "Panic", ch |-> NoChar, pos |-> 0, line |-> line]

JsonTokenizer_new(input, pc) ==
  [input |-> input, position |-> 0, pc |-> pc, tokens |-> <<>>,
   start_position |-> 0, ch |-> NoChar, string |-> <<>>,
   keyword |-> <<>>, token |-> Token("Null"), kidx |-> 1,
   result |-> NoResult, lastOp |-> "none", emitted |-> 0]

\* What next() returns: self.input.chars().nth(self.position - 1), after the
\* increment.
JsonTokenizer_peek(t) ==
  IF t.position + 1 <= Len(t.input) THEN t.input[t.position + 1] ELSE NoChar

\* A next() that moves the cursor only when a character is left.
JsonTokenizer_next_bounded(t) ==
  IF t.position + 1 <= Len(t.input)
    THEN [t EXCEPT !.position = @ + 1, !.lastOp = "advance"]
    ELSE [t EXCEPT !.lastOp = "advance"]

\* next()'s `self.position += 1`, done whether or not a character is left.
JsonTokenizer_next(t) ==
  [t EXCEPT !.position = @ + 1, !.lastOp = "advance"]

\* `self.position -= 1` on a usize: at 0 a debug build panics and a release
\* build wraps around; CursorMoves states that no run gets there.
JsonTokenizer_rewind(t) ==
  IF t.position = 0
    THEN [t EXCEPT !.pc = "done", !.result = Panicked(0), !.lastOp = "rewind"]
    ELSE [t EXCEPT !.position = @ - 1, !.lastOp = "rewind"]

TokenizeFail(t, ch, line) ==
  [t EXCEPT !.pc = "done", !.result = UnexpectedCharacter(ch, t.position, line)]

\* tokens.push(...) back in tokenize's loop.
TokenizePush(t, tok) ==
  [t EXCEPT !.tokens = Append(@, tok), !.pc = "tokenize",
            !.emitted = t.position]

\* tokenize, one turn of `while let Some(ch) = self.next()` up to the next
\* cursor operation.
tokenize_loop(t) ==
  LET ch == JsonTokenizer_peek(t)
      a  == JsonTokenizer_next(t)
  IN  IF ch = NoChar THEN [a EXCEPT !.pc = "done", !.result = TokenizeOk]
      ELSE IF ch \in Structural THEN TokenizePush(a, StructuralToken(ch))
      ELSE IF is_ascii_digit(ch) THEN [a EXCEPT !.pc = "tokenize_rewind"]
      ELSE IF ch = Quote THEN [a EXCEPT !.pc = "parse_string", !.string = <<>>]
      ELSE IF ch \in KeywordStart
        THEN [a EXCEPT !.pc = "parse_keyword_enter",
                       !.keyword = KeywordText(ch), !.token = KeywordToken(ch)]
      ELSE a

\* tokenize's `self.position -= 1` before parse_int, and parse_int's
\* `let start_position = self.position`.
tokenize_rewind(t) ==
  LET r == JsonTokenizer_rewind(t)
  IN  IF r.pc = "done" THEN r
      ELSE [r EXCEPT !.pc = "parse_int", !.start_position = r.position]

\* parse_int, one turn of `while let Some(ch) = self.next()`.
parse_int_loop(t) ==
  LET ch == JsonTokenizer_peek(t)
      a  == JsonTokenizer_next(t)
  IN  IF ch = NoChar THEN TokenizeFail(a, NUL, 52)
      ELSE IF ~is_ascii_digit(ch) /\ ch # "."
        THEN [a EXCEPT !.pc = "parse_int_end", !.ch = ch]
      ELSE a

\* A parse_int that goes back to the start of the run instead of one
\* character back.
parse_int_end_restart(t) ==
  [t EXCEPT !.position = t.start_position, !.lastOp = "rewind",
            !.pc = "tokenize"]

\* parse_int at the character that ends the run: the rewind, the slice
\* &self.input[start_position..self.position] and its conversion.
parse_int_end(t) ==
  LET r  == JsonTokenizer_rewind(t)
      sl == ByteSlice(r.input, r.start_position, r.position)
      pf == ParseF64(sl.str)
  IN  IF r.pc = "done" THEN r
      ELSE IF sl.panic THEN [r EXCEPT !.pc = "done", !.result = Panicked(43)]
      ELSE IF pf.ok THEN TokenizePush(r, NumberToken(pf.val))
      ELSE TokenizeFail(r, t.ch, 47)

\* parse_string, one turn of `while let Some(ch) = self.next()`.
parse_string_loop(t) ==
  LET ch == JsonTokenizer_peek(t)
      a  == JsonTokenizer_next(t)
  IN  IF ch = NoChar THEN TokenizeFail(a, Quote, 66)
      ELSE IF ch = Quote THEN TokenizePush(a, StringToken(t.string))
      ELSE [a EXCEPT !.string = Append(@, ch)]

\* parse_keyword's `self.position -= 1; let start_position = self.position`.
parse_keyword_enter(t) ==
  LET r == JsonTokenizer_rewind(t)
  IN  IF r.pc = "done" THEN r
      ELSE [r EXCEPT !.pc = "parse_keyword", !.start_position = r.position,
                     !.kidx = 1]

\* parse_keyword, one turn of `for expected_ch in keyword.chars()`; after the
\* last character it returns the token, which tokenize pushes.
parse_keyword_loop(t) ==
  LET ch == JsonTokenizer_peek(t)
      a  == JsonTokenizer_next(t)
  IN  IF ch = NoChar THEN TokenizeFail(a, NUL, 81)
      ELSE IF ch # t.keyword[t.kidx] THEN TokenizeFail(a, ch, 78)
      ELSE IF t.kidx = Len(t.keyword) THEN TokenizePush(a, t.token)
      ELSE [a EXCEPT !.kidx = @ + 1]

\* The step the tokenizer takes from t (t.pc is not "done" or "idle").
TokenizerStep(t) ==
  CASE t.pc = "tokenize"            -> tokenize_loop(t)
    [] t.pc = "tokenize_rewind"     -> tokenize_rewind(t)
    [] t.pc = "parse_int"           -> parse_int_loop(t)
    [] t.pc = "parse_int_end"       -> parse_int_end(t)
    [] t.pc = "parse_string"        -> parse_string_loop(t)
    [] t.pc = "parse_keyword_enter" -> parse_keyword_enter(t)
    [] t.pc = "parse_keyword"       -> parse_keyword_loop(t)

\* tokenize() run to its end from t.
RECURSIVE TokenizeFrom(_)
TokenizeFrom(t) ==
  IF t.pc \in {"done", "idle"} THEN t ELSE TokenizeFrom(TokenizerStep(t))

\* JsonTokenizer::new(input).tokenize()
Tokenize(input) == TokenizeFrom(JsonTokenizer_new(input, "tokenize"))

(***************************************************************************)
(* JsonValue.                                                              *)
(*                                                                         *)
(* items holds an Array's elements (values) or an Object's members         *)
(* ((key, value) pairs) in the order of the Vec.                           *)
(***************************************************************************)
JsonNull == [kind |-> "Null", b |-> FALSE, n |-> F64(FALSE, 0, 0), s |-> <<>>,
             items |-> <<>>]
JsonBool(b) == [JsonNull EXCEPT !.kind = "Bool", !.b = b]
JsonNumber(n) == [JsonNull EXCEPT !.kind = "Number", !.n = n]
JsonString(s) == [JsonNull EXCEPT !.kind = "String", !.s = s]
JsonArray(items) == [JsonNull EXCEPT !.kind = "Array", !.items = items]
JsonObject(items) == [JsonNull EXCEPT !.kind = "Object", !.items = items]

\* One (String, JsonValue) member of an Object's Vec.
Member(key, value) == [key |-> key, value |-> value]

(***************************************************************************)
(* JsonParser.                                                             *)
(*                                                                         *)
(* Fields tokens and position are the struct's. parse, parse_object and    *)
(* parse_array call each other recursively; stack holds one frame for each *)
(* parse_object or parse_array call in progress, innermost last, with its  *)
(* locals: the Vec built so far (items) and the `token` bound by its       *)
(* `if let Some(token) = self.next()`. lastOp only records history.        *)
(***************************************************************************)
\* Option<&JsonToken>::None.
NoToken == Token("None")

ParseNoResult ==
  [kind |-> "None", err |-> "", token |-> NoToken, value |-> JsonNull]
ParseOk(v) ==
  [kind |-> "Ok", err |-> "", token |-> NoToken, value |-> v]
\* Err(ParseError::UnexpectedToken(token))
UnexpectedToken(token) ==
  [kind |-> "Err", err |-> "UnexpectedToken", token |-> token, value |-> JsonNull]
\* Err(ParseError::UnexpectedEnd)
UnexpectedEnd ==
  [kind |-> "Err", err |-> "UnexpectedEnd", token |-> NoToken, value |-> JsonNull]

JsonParser_new(tokens, pc) ==
  [tokens |-> tokens, position |-> 0, pc |-> pc, stack |-> <<>>,
   result |-> ParseNoResult, lastOp |-> "none"]

Frame(kind) == [kind |-> kind, items |-> <<>>, token |-> NoToken]

\* What next() returns: self.tokens.get(self.position), before the increment.
JsonParser_peek(p) ==
  IF p.position + 1 <= Len(p.tokens) THEN p.tokens[p.position + 1] ELSE NoToken

\* next()'s `self.position += 1`, done whether or not a token is left.
JsonParser_next(p) ==
  [p EXCEPT !.position = @ + 1, !.lastOp = "advance"]

\* `self.position -= 1` on a usize (see JsonTokenizer_rewind).
JsonParser_rewind(p) ==
  IF p.position = 0
    THEN [p EXCEPT !.pc = "done", !.lastOp = "rewind"]
    ELSE [p EXCEPT !.position = @ - 1, !.lastOp = "rewind"]

\* An Err(...) return; every caller up the stack passes it on with `?`.
ParseFail(p, err) == [p EXCEPT !.pc = "done", !.result = err]

Top(p) == p.stack[Len(p.stack)]

Pop(p) == [p EXCEPT !.stack = SubSeq(@, 1, Len(@) - 1)]

\* A push with the semantics of a map: a key already there gets the value.
object_push_replacing(items, key, value) ==
  IF \E i \in 1..Len(items) : items[i].key = key
    THEN [i \in 1..Len(items) |->
            IF items[i].key = key THEN Member(key, value) ELSE items[i]]
    ELSE Append(items, Member(key, value))

\* `object.push((key.clone(), value))`: the key is the frame's token.
object_push(items, key, value) == Append(items, Member(key, value))

\* `array.push(value)`
array_push(items, value) == Append(items, value)

\* parse() returns Ok(v) to its caller: the top-level caller, or the
\* parse_object / parse_array call waiting in `let value = self.parse()?`,
\* which pushes the value.
ParseReturn(p, v) ==
  IF p.stack = <<>> THEN [p EXCEPT !.pc = "done", !.result = ParseOk(v)]
  ELSE LET n == Len(p.stack)
           f == p.stack[n]
       IN  IF f.kind = "object"
             THEN [p EXCEPT !.stack[n].items = object_push(f.items, f.token.s, v),
                            !.pc = "parse_object_after_value"]
             ELSE [p EXCEPT !.stack[n].items = array_push(f.items, v),
                            !.pc = "parse_array_after_value"]

\* parse: `if let Some(token) = self.next()` and the match on the token.
parse_dispatch(p) ==
  LET token == JsonParser_peek(p)
      a     == JsonParser_next(p)
  IN  CASE token = NoToken -> ParseFail(a, UnexpectedEnd)
        [] token.type = "Null" -> ParseReturn(a, JsonNull)
        [] token.type = "True" -> ParseReturn(a, JsonBool(TRUE))
        [] token.type = "False" -> ParseReturn(a, JsonBool(FALSE))
        [] token.type = "Number" -> ParseReturn(a, JsonNumber(token.n))
        [] token.type = "String" -> ParseReturn(a, JsonString(token.s))
        [] token.type = "LeftBrace" ->
             [a EXCEPT !.stack = Append(@, Frame("object")), !.pc = "parse_object"]
        [] token.type = "LeftBracket" ->
             [a EXCEPT !.stack = Append(@, Frame("array")), !.pc = "parse_array"]
        [] OTHER -> ParseFail(a, UnexpectedToken(token))

\* parse_object: the `if let Some(token) = self.next()` at the head of the
\* loop and the match on the token.
parse_object_loop(p) ==
  LET token == JsonParser_peek(p)
      a     == JsonParser_next(p)
      n     == Len(p.stack)
  IN  CASE token = NoToken -> ParseFail(a, UnexpectedEnd)
        [] token.type = "RightBrace" ->
             ParseReturn(Pop(a), JsonObject(Top(p).items))
        [] token.type = "String" ->
             [a EXCEPT !.stack[n].token = token, !.pc = "parse_object_colon"]
        [] OTHER -> ParseFail(a, UnexpectedToken(token))

\* parse_object: `if let Some(JsonToken::Colon) = self.next()` and its else.
parse_object_colon(p) ==
  LET got == JsonParser_peek(p)
      a   == JsonParser_next(p)
  IN  IF got.type = "Colon" THEN [a EXCEPT !.pc = "parse"]
      ELSE ParseFail(a, UnexpectedToken(Top(p).token))

\* parse_object: the `match self.next()` after the member is pushed.
parse_object_after_value(p) ==
  LET got == JsonParser_peek(p)
      a   == JsonParser_next(p)
  IN  CASE got.type = "Comma" -> [a EXCEPT !.pc = "parse_object"]
        [] got.type = "RightBrace" ->
             ParseReturn(Pop(a), JsonObject(Top(p).items))
        [] OTHER -> ParseFail(a, UnexpectedToken(Top(p).token))

\* parse_array: the `if let Some(token) = self.next()` at the head of the loop
\* and the match on the token, up to the rewind.
parse_array_loop(p) ==
  LET token == JsonParser_peek(p)
      a     == JsonParser_next(p)
      n     == Len(p.stack)
  IN  CASE token = NoToken -> ParseFail(a, UnexpectedEnd)
        [] token.type = "RightBracket" ->
             ParseReturn(Pop(a), JsonArray(Top(p).items))
        [] OTHER ->
             [a EXCEPT !.stack[n].token = token, !.pc = "parse_array_rewind"]

\* A parse_array that goes back two tokens.
parse_array_rewind_twice(p) ==
  [p EXCEPT !.position = @ - 2, !.lastOp = "rewind", !.pc = "parse"]

\* parse_array: `self.position -= 1` before `self.parse()`.
parse_array_rewind(p) ==
  LET r == JsonParser_rewind(p)
  IN  IF r.pc = "done" THEN r ELSE [r EXCEPT !.pc = "parse"]

\* parse_array: the `match self.next()` after the element is pushed.
parse_array_after_value(p) ==
  LET got == JsonParser_peek(p)
      a   == JsonParser_next(p)
  IN  CASE got.type = "Comma" -> [a EXCEPT !.pc = "parse_array"]
        [] got.type = "RightBracket" ->
             ParseReturn(Pop(a), JsonArray(Top(p).items))
        [] OTHER -> ParseFail(a, UnexpectedToken(Top(p).token))

(***************************************************************************)
(* Inputs.                                                                 *)
(***************************************************************************)
\* The characters texts are enumerated over: two structural characters, a
\* digit, the dot, the quote, the letters of a keyword (null), and a
\* two-byte character, which tokenize skips like any unrecognized one.
Alphabet == {"[", ",", "1", ".", Quote, "n", "u", "l", EAcute}

Texts == UNION {[1..n -> Alphabet] : n \in 0..MaxLen}

\* Longer texts: the scenarios of the documentation and the literals.
SampleTexts ==
  { <<"{", Quote, "a", Quote, ":", "1", ",", Quote, "b", Quote, ":", "[",
      "t", "r", "u", "e", ",", "f", "a", "l", "s", "e", ",",
      "n", "u", "l", "l", "]", "}">>,
    <<"{", Quote, "a", Quote, ":", "1", ",", Quote, "a", Quote, ":", "2", "}">>,
    <<"[", "1", ",", "2", ",", "3", "]">>,
    <<"{", Quote, "a", Quote, ":", "1">>,
    <<"{", Quote, "a", Quote, ":", "1", " ">>,
    <<"t", "r", "u">>,
    <<"t", "r", "u", "e">>,
    <<"f", "a", "l", "s", "e">>,
    <<"f", "a", "l", "s", "x">>,
    <<"4", "2">>,
    <<"3", ".", "5">>,
    <<Quote, "a", "b", Quote>>,
    <<"[", "1", ",", ",", "2", "]">>,
    <<"[", "1", " ", "2", "]">>,
    <<"1", ".", "2", ".", "3", ",">>,
    <<"-", "1", ",">>,
    <<"[", "1", "e", "2", "]">>,
    <<Quote, EAcute, EAcute, "1", Quote, "2", ",">>,
    <<"[", Quote, EAcute, Quote, ",", "1", "]">> }

One == F64(FALSE, 1, 0)
Two == F64(FALSE, 2, 0)

\* The tokens token sequences are enumerated over.
TokenAlphabet ==
  { Token("LeftBrace"), Token("RightBrace"), Token("LeftBracket"),
    Token("RightBracket"), Token("Colon"), Token("Comma"),
    StringToken(<<"a">>), NumberToken(One) }

TokenSeqs == UNION {[1..n -> TokenAlphabet] : n \in 0..MaxTokens}

\* Longer token sequences: the scenarios of the documentation.
SampleTokens ==
  { << Token("LeftBrace"), StringToken(<<"a">>), Token("Colon"), NumberToken(One),
       Token("Comma"), StringToken(<<"b">>), Token("Colon"), Token("LeftBracket"),
       Token("True"), Token("Comma"), Token("False"), Token("Comma"),
       Token("Null"), Token("RightBracket"), Token("RightBrace") >>,
    << Token("LeftBrace"), StringToken(<<"a">>), Token("Colon"), NumberToken(One),
       Token("Comma"), StringToken(<<"a">>), Token("Colon"), NumberToken(Two),
       Token("RightBrace"), Token("Comma") >>,
    << Token("LeftBracket"), NumberToken(One), Token("Comma"), NumberToken(Two),
       Token("Comma"), StringToken(<<"a">>), Token("RightBracket") >>,
    << Token("LeftBracket"), NumberToken(One), Token("Comma"), Token("Comma"),
       NumberToken(Two), Token("RightBracket") >>,
    << Token("True") >>, << Token("False") >>, << Token("Null") >> }

(***************************************************************************)
(* The state machine.                                                      *)
(***************************************************************************)
\* load_from_file: a tokenizer over the text that was read; the parser is
\* not yet made.
InitText ==
  \E input \in Texts \cup SampleTexts :
    /\ tokenizer = JsonTokenizer_new(input, "tokenize")
    /\ parser = JsonParser_new(<<>>, "idle")

\* parse(tokens) called on a token sequence of the caller's.
InitTokens ==
  \E tokens \in TokenSeqs \cup SampleTokens :
    /\ tokenizer = JsonTokenizer_new(<<>>, "idle")
    /\ parser = JsonParser_new(tokens, "parse")

InitAll == InitText \/ InitTokens

TokenizeLoop ==
  /\ tokenizer.pc = "tokenize"
  /\ tokenizer' = tokenize_loop(tokenizer)
  /\ UNCHANGED parser

TokenizeRewind ==
  /\ tokenizer.pc = "tokenize_rewind"
  /\ tokenizer' = tokenize_rewind(tokenizer)
  /\ UNCHANGED parser

ParseIntLoop ==
  /\ tokenizer.pc = "parse_int"
  /\ tokenizer' = parse_int_loop(tokenizer)
  /\ UNCHANGED parser

ParseIntEnd ==
  /\ tokenizer.pc = "parse_int_end"
  /\ tokenizer' = parse_int_end(tokenizer)
  /\ UNCHANGED parser

ParseStringLoop ==
  /\ tokenizer.pc = "parse_string"
  /\ tokenizer' = parse_string_loop(tokenizer)
  /\ UNCHANGED parser

ParseKeywordEnter ==
  /\ tokenizer.pc = "parse_keyword_enter"
  /\ tokenizer' = parse_keyword_enter(tokenizer)
  /\ UNCHANGED parser

ParseKeywordLoop ==
  /\ tokenizer.pc = "parse_keyword"
  /\ tokenizer' = parse_keyword_loop(tokenizer)
  /\ UNCHANGED parser

\* load_from_file: `tokenizer.tokenize().unwrap()` gave the tokens (on an Err
\* unwrap panics and nothing follows); `JsonParser::new(&tokens)`.
LoadFromFile ==
  /\ tokenizer.pc = "done"
  /\ tokenizer.result.kind = "Ok"
  /\ parser.pc = "idle"
  /\ parser' = JsonParser_new(tokenizer.tokens, "parse")
  /\ UNCHANGED tokenizer

ParseDispatch ==
  /\ parser.pc = "parse"
  /\ parser' = parse_dispatch(parser)
  /\ UNCHANGED tokenizer

ParseObjectLoop ==
  /\ parser.pc = "parse_object"
  /\ parser' = parse_object_loop(parser)
  /\ UNCHANGED tokenizer

ParseObjectColon ==
  /\ parser.pc = "parse_object_colon"
  /\ parser' = parse_object_colon(parser)
  /\ UNCHANGED tokenizer

ParseObjectAfterValue ==
  /\ parser.pc = "parse_object_after_value"
  /\ parser' = parse_object_after_value(parser)
  /\ UNCHANGED tokenizer

ParseArrayLoop ==
  /\ parser.pc = "parse_array"
  /\ parser' = parse_array_loop(parser)
  /\ UNCHANGED tokenizer

ParseArrayRewind ==
  /\ parser.pc = "parse_array_rewind"
  /\ parser' = parse_array_rewind(parser)
  /\ UNCHANGED tokenizer

ParseArrayAfterValue ==
  /\ parser.pc = "parse_array_after_value"
  /\ parser' = parse_array_after_value(parser)
  /\ UNCHANGED tokenizer

NextTokenizer ==
  \/ TokenizeLoop
  \/ TokenizeRewind
  \/ ParseIntLoop
  \/ ParseIntEnd
  \/ ParseStringLoop
  \/ ParseKeywordEnter
  \/ ParseKeywordLoop

NextParser ==
  \/ ParseDispatch
  \/ ParseObjectLoop
  \/ ParseObjectColon
  \/ ParseObjectAfterValue
  \/ ParseArrayLoop
  \/ ParseArrayRewind
  \/ ParseArrayAfterValue

Next == NextTokenizer \/ LoadFromFile \/ NextParser

\* load_from_file on every text.
Spec == InitText /\ [][Next]_vars

\* parse on every token sequence.
SpecParser == InitTokens /\ [][NextParser]_vars

\* Both entry points.
SpecAll == InitAll /\ [][Next]_vars

\* The run is over: tokenize failed (and load_from_file's unwrap panicked), or
\* parse returned.
Finished ==
  \/ tokenizer.pc = "done" /\ tokenizer.result.kind # "Ok"
  \/ parser.pc = "done"

(***************************************************************************)
(* The two entry points as functions: the steps above, run to the end.     *)
(***************************************************************************)
\* The step the parser takes from p (p.pc is not "done" or "idle").
ParserStep(p) ==
  CASE p.pc = "parse"                    -> parse_dispatch(p)
    [] p.pc = "parse_object"             -> parse_object_loop(p)
    [] p.pc = "parse_object_colon"       -> parse_object_colon(p)
    [] p.pc = "parse_object_after_value" -> parse_object_after_value(p)
    [] p.pc = "parse_array"              -> parse_array_loop(p)
    [] p.pc = "parse_array_rewind"       -> parse_array_rewind(p)
    [] p.pc = "parse_array_after_value"  -> parse_array_after_value(p)

RECURSIVE ParseFrom(_)
ParseFrom(p) ==
  IF p.pc \in {"done", "idle"} THEN p ELSE ParseFrom(ParserStep(p))

\* JsonParser::new(&tokens).parse()
Parse(tokens) == ParseFrom(JsonParser_new(tokens, "parse"))

(***************************************************************************)
(* C1: scalar literals.                                                    *)
(***************************************************************************)
IsDecimalLiteral(input) ==
  LET dot  == IndexOf(input, {"."})
      int  == IF dot = 0 THEN input ELSE SubSeq(input, 1, dot - 1)
      frac == IF dot = 0 THEN <<>> ELSE SubSeq(input, dot + 1, Len(input))
  IN  /\ int # <<>> /\ IsDigitSeq(int) /\ IsDigitSeq(frac)
      /\ dot # 0 => frac # <<>>

DecimalValue(input) ==
  LET dot  == IndexOf(input, {"."})
      int  == IF dot = 0 THEN input ELSE SubSeq(input, 1, dot - 1)
      frac == IF dot = 0 THEN <<>> ELSE SubSeq(input, dot + 1, Len(input))
  IN  F64(FALSE, DigitsValue(int \o frac), 0 - Len(frac))

IsStringLiteral(input) ==
  /\ Len(input) >= 2
  /\ input[1] = Quote /\ input[Len(input)] = Quote
  /\ \A i \in 2..(Len(input) - 1) : input[i] # Quote

IsScalarLiteral(input) ==
  \/ input \in {KeywordText("t"), KeywordText("f"), KeywordText("n")}
  \/ IsDecimalLiteral(input)
  \/ IsStringLiteral(input)

\* The value a scalar literal stands for.
ScalarValue(input) ==
  CASE input = KeywordText("t") -> JsonBool(TRUE)
    [] input = KeywordText("f") -> JsonBool(FALSE)
    [] input = KeywordText("n") -> JsonNull
    [] IsStringLiteral(input) -> JsonString(SubSeq(input, 2, Len(input) - 1))
    [] OTHER -> JsonNumber(DecimalValue(input))

\* C1: when the text is exactly one scalar literal (true, false, null, a
\* decimal number, a quoted string), tokenize succeeds and parse returns the
\* matching value.
ScalarLiteralsParse ==
  IsScalarLiteral(tokenizer.input) =>
    /\ tokenizer.pc = "done" => tokenizer.result.kind = "Ok"
    /\ parser.pc = "done" => parser.result = ParseOk(ScalarValue(tokenizer.input))

(***************************************************************************)
(* C2: the order of elements and members.                                  *)
(***************************************************************************)
\* The tokens of a value, written without trailing commas.
RECURSIVE Render(_)
RECURSIVE RenderItems(_, _, _)
Render(v) ==
  CASE v.kind = "Null" -> <<Token("Null")>>
    [] v.kind = "Bool" -> IF v.b THEN <<Token("True")>> ELSE <<Token("False")>>
    [] v.kind = "Number" -> <<NumberToken(v.n)>>
    [] v.kind = "String" -> <<StringToken(v.s)>>
    [] v.kind = "Array" ->
         <<Token("LeftBracket")>> \o RenderItems("Array", v.items, 1)
           \o <<Token("RightBracket")>>
    [] v.kind = "Object" ->
         <<Token("LeftBrace")>> \o RenderItems("Object", v.items, 1)
           \o <<Token("RightBrace")>>

RenderItems(kind, items, i) ==
  IF i > Len(items) THEN <<>>
  ELSE (IF i > 1 THEN <<Token("Comma")>> ELSE <<>>)
       \o (IF kind = "Object"
             THEN <<StringToken(items[i].key), Token("Colon")>>
                    \o Render(items[i].value)
             ELSE Render(items[i]))
       \o RenderItems(kind, items, i + 1)

\* ts without the commas that stand right before a closing brace or bracket
\* (parse_object and parse_array accept those).
RECURSIVE DropTrailingCommas(_)
DropTrailingCommas(ts) ==
  IF ts = <<>> THEN <<>>
  ELSE IF /\ Len(ts) >= 2
          /\ ts[1].type = "Comma"
          /\ ts[2].type \in {"RightBrace", "RightBracket"}
    THEN DropTrailingCommas(Tail(ts))
  ELSE <<ts[1]>> \o DropTrailingCommas(Tail(ts))

\* The tokens parse has consumed.
Consumed(p) == SubSeq(p.tokens, 1, p.position)

\* C2: when parse returns the value of an array or object, writing the value
\* out again, elements and members in the order of their Vecs, gives exactly
\* the tokens consumed: every element and every (key, value) member, a
\* repeated key included, is in the tree, once, in the order of the tokens.
OrderPreserved ==
  (/\ parser.pc = "done" /\ parser.result.kind = "Ok"
   /\ parser.result.value.kind \in {"Array", "Object"})
    => Render(parser.result.value) = DropTrailingCommas(Consumed(parser))

\* An object with the same key twice has been returned.
OrderPreservedWitness ==
  /\ parser.pc = "done" /\ parser.result.kind = "Ok"
  /\ parser.result.value.kind = "Object"
  /\ Len(parser.result.value.items) = 2
  /\ parser.result.value.items[1].key = parser.result.value.items[2].key
  /\ parser.result.value.items[1].value # parser.result.value.items[2].value

(***************************************************************************)
(* C3, C4: parse errors.                                                   *)
(***************************************************************************)
\* C3: when parse stops because next() found no token left, it returns
\* UnexpectedEnd.
ExhaustedIsUnexpectedEnd ==
  (parser.pc = "done" /\ parser.position > Len(parser.tokens))
    => parser.result = UnexpectedEnd

\* C4: the token UnexpectedToken carries is the token parse read last, the
\* one at which the grammar was violated.
UnexpectedTokenIsOffending ==
  (/\ parser.pc = "done" /\ parser.result.err = "UnexpectedToken"
   /\ parser.position <= Len(parser.tokens))
    => parser.result.token = parser.tokens[parser.position]

(***************************************************************************)
(* C5: the unterminated string.                                            *)
(***************************************************************************)
\* The tokenizer is inside a string literal that the text never closes.
InOpenString(t) ==
  /\ t.pc = "parse_string"
  /\ \A i \in (t.position + 1)..Len(t.input) : t.input[i] # Quote

\* C5, as claimed: an unterminated string is reported as
\* UnexpectedCharacter('"', p) with p the length of the text in characters.
UnterminatedStringAtLength ==
  InOpenString(tokenizer) =>
    LET r == TokenizeFrom(tokenizer).result
    IN  r.kind = "Err" /\ r.ch = Quote /\ r.pos = Len(tokenizer.input)

\* C5, amended: p is the length of the text in characters plus one, the
\* cursor after the next() that found no character.
UnterminatedStringPastLength ==
  InOpenString(tokenizer) =>
    LET r == TokenizeFrom(tokenizer).result
    IN  r.kind = "Err" /\ r.ch = Quote /\ r.pos = Len(tokenizer.input) + 1

\* tokenize has reported an unterminated string whose text holds a two-byte
\* character: the position counts characters, not bytes.
UnterminatedStringWitness ==
  /\ tokenizer.pc = "done"
  /\ tokenizer.result = UnexpectedCharacter(Quote, Len(tokenizer.input) + 1, 66)
  /\ \E i \in 1..Len(tokenizer.input) : tokenizer.input[i] = EAcute

(***************************************************************************)
(* C6: the text of a number.                                               *)
(***************************************************************************)
\* C6: at the character that ends a run of digits and dots, the text
\* converted is that run (the characters from the digit tokenize met to the
\* one before the cursor): when the run is a well-formed number, tokenize goes
\* on with Number(the run's value) pushed.
NumberIsItsRun ==
  tokenizer.pc = "parse_int_end" =>
    LET run   == SubSeq(tokenizer.input, tokenizer.start_position + 1,
                        tokenizer.position - 1)
        after == parse_int_end(tokenizer)
    IN  ParseF64(run).ok =>
          /\ after.pc = "tokenize"
          /\ after.tokens = Append(tokenizer.tokens, NumberToken(ParseF64(run).val))

(***************************************************************************)
(* C7: white space between tokens.                                         *)
(***************************************************************************)
WhiteSpaceRuns == { <<" ">>, <<"\t">>, <<"\n">>, <<" ", "\n", "\t">> }

\* The characters at which tokenize's match starts a token.
StartsToken(ch) ==
  ch \in Structural \/ is_ascii_digit(ch) \/ ch = Quote \/ ch \in KeywordStart

InsertAt(input, i, run) ==
  SubSeq(input, 1, i) \o run \o SubSeq(input, i + 1, Len(input))

\* The tokenizer stands between two adjacent tokens: right after one it
\* pushed, right before a character that starts the next.
BetweenTokens(t) ==
  /\ t.pc = "tokenize" /\ t.tokens # <<>> /\ t.emitted = t.position
  /\ t.position < Len(t.input)
  /\ StartsToken(t.input[t.position + 1])

\* C7: when the text tokenizes and parses, white space put between two
\* adjacent tokens changes neither the tokens nor the value.
WhiteSpaceInsensitive ==
  LET orig == TokenizeFrom(tokenizer)
  IN  (/\ BetweenTokens(tokenizer)
       /\ orig.result.kind = "Ok"
       /\ Parse(orig.tokens).result.kind = "Ok")
        => \A run \in WhiteSpaceRuns :
             LET spaced == Tokenize(InsertAt(tokenizer.input, tokenizer.position, run))
             IN  /\ spaced.result.kind = "Ok"
                 /\ spaced.tokens = orig.tokens
                 /\ Parse(spaced.tokens).result = Parse(orig.tokens).result

(***************************************************************************)
(* C8: the position of a lexical error.                                    *)
(***************************************************************************)
\* C8: an UnexpectedCharacter(c, p) from parse_int or parse_keyword names the
\* character at the 1-based position p, or, when the text has run out, the
\* position one past its end.
ErrorPositionIsOneBased ==
  (/\ tokenizer.pc = "done" /\ tokenizer.result.kind = "Err"
   /\ tokenizer.result.line \in {47, 52, 78, 81})
    => IF tokenizer.result.ch = NUL
         THEN tokenizer.result.pos = Len(tokenizer.input) + 1
         ELSE /\ tokenizer.result.pos \in 1..Len(tokenizer.input)
              /\ tokenizer.input[tokenizer.result.pos] = tokenizer.result.ch

(***************************************************************************)
(* C9: the moves of the cursors.                                           *)
(***************************************************************************)
\* One step of a cursor: it stays, advances by one, or is rewound by one; a
\* rewind comes directly after an advance and not at 0.
CursorStep(c, d) ==
  /\ d.position - c.position \in {-1, 0, 1}
  /\ (d.position < c.position \/ (d # c /\ d.lastOp = "rewind"))
       => /\ d.position = c.position - 1
          /\ c.position >= 1
          /\ c.lastOp = "advance"

\* C9: the tokenizer's and the parser's cursor move only by an advance of
\* one or a rewind of one, and a rewind only directly after an advance.
CursorMoves ==
  [][CursorStep(tokenizer, tokenizer') /\ CursorStep(parser, parser')]_vars

\* Both cursors have been rewound: the tokenizer's for a number or keyword,
\* the parser's for an array element.
CursorMovesWitness ==
  /\ parser.lastOp = "rewind" /\ parser.position >= 1
  /\ tokenizer.pc = "done"
  /\ \E i \in 1..Len(tokenizer.tokens) : tokenizer.tokens[i].type = "Number"

(***************************************************************************)
(* C10: termination.                                                       *)
(***************************************************************************)
\* 1 right after a rewind, when the cursor is one below the furthest element
\* read so far, else 0.
Behind(c) == IF c.lastOp = "rewind" THEN 1 ELSE 0

\* A measure of what the tokenizer has left to do: six for each character
\* not yet read, plus what the place in the code still has to do before the
\* next character is read for the first time.
TokenizerRank(t) ==
  IF t.pc \in {"done", "idle"} THEN 0
  ELSE 6 * (Len(t.input) + 1 - (t.position + Behind(t)))
       + CASE t.pc = "tokenize"            -> IF Behind(t) = 1 THEN 4 ELSE 1
           [] t.pc = "tokenize_rewind"     -> 3
           [] t.pc = "parse_int"           -> 1 + Behind(t)
           [] t.pc = "parse_int_end"       -> 5
           [] t.pc = "parse_string"        -> 1
           [] t.pc = "parse_keyword_enter" -> 3
           [] t.pc = "parse_keyword"       -> 1 + Behind(t)

\* The same for the parser; before it is made, more than it can start with
\* (tokenize makes at most one token from each character).
ParserRank(p, inputLen) ==
  IF p.pc = "done" THEN 0
  ELSE IF p.pc = "idle" THEN 6 * (inputLen + 1) + 2
  ELSE 6 * (Len(p.tokens) + 1 - (p.position + Behind(p)))
       + CASE p.pc = "parse"              -> IF Behind(p) = 1 THEN 3 ELSE 1
           [] p.pc = "parse_array_rewind" -> 4
           [] OTHER                       -> 1

Rank == TokenizerRank(tokenizer) + ParserRank(parser, Len(tokenizer.input))

\* Some action of Next is enabled: its guard on the place in the code holds.
CanStep ==
  \/ tokenizer.pc \in {"tokenize", "tokenize_rewind", "parse_int",
                       "parse_int_end", "parse_string", "parse_keyword_enter",
                       "parse_keyword"}
  \/ tokenizer.pc = "done" /\ tokenizer.result.kind = "Ok" /\ parser.pc = "idle"
  \/ parser.pc \in {"parse", "parse_object", "parse_object_colon",
                    "parse_object_after_value", "parse_array",
                    "parse_array_rewind", "parse_array_after_value"}

\* C10: tokenize and parse terminate: every step lowers a measure that is a
\* natural number, and leaves the run either over or with a step to take.
Termination ==
  [][Rank' < Rank /\ Rank' >= 0 /\ (Finished' \/ CanStep')]_vars

\* A run over a text with a number, a keyword and a container has ended
\* with a value.
TerminationWitness ==
  /\ parser.pc = "done" /\ parser.result.kind = "Ok"
  /\ parser.result.value.kind \in {"Array", "Object"}
  /\ \E i \in 1..Len(tokenizer.tokens) : tokenizer.tokens[i].type = "Number"
  /\ \E i \in 1..Len(tokenizer.tokens) : tokenizer.tokens[i].type = "Null"

====
